---- MODULE Spec2Model ----
(***************************************************************************)
(* A model of nostk's publish commands (publishMessage, publishProfile,    *)
(* publishRelayList and the relay fan-out loop they share), of the tag     *)
(* schema check (checkTags) and of the argument-to-event builder           *)
(* (buildJson, addTags).                                                   *)
(*                                                                         *)
(* Go slices are 0-based and TLA+ sequences 1-based: At(s, i) reads the    *)
(* Go index i of a sequence.  A Go slice value is a record                 *)
(* [isNil, elems], because encoding/json writes a nil slice as null and an *)
(* empty one as [].  Strings stand for valid UTF-8 text.                   *)
(***************************************************************************)
EXTENDS Integers, Sequences, FiniteSets, TLC

\* ------------------------------------------------------------------ bounds
\* the largest number of entries of relays.json
MaxRelays == 3
\* the longest tag sequence handed to checkTags
MaxTags == 3
\* the longest argument list handed to buildJson
MaxArgs == 5
\* the largest number of blocks a scanned content string is made of
MaxParts == 3
\* the longest content string handed to the hashtag extraction
MaxContentLen == 7

\* --------------------------------------------------------------- constants
subCommandName == 1
indexTagName == 0
KindSetMetadata == 0
KindTextNote == 1
KindRelayListMetadata == 10002
\* the {58} of the pattern of containsNsec1
nsecKeyLen == 58

\* ----------------------------------------------------------------- helpers
At(s, i) == s[i + 1]

NilSlice == [isNil |-> TRUE, elems |-> <<>>]
\* Go's append: the result is never nil
GoAppend(sl, x) == [isNil |-> FALSE, elems |-> Append(sl.elems, x)]

\* every enumeration order of a finite set: the orders a range over a Go map
\* can produce
Perms(S) ==
  {s \in [1..Cardinality(S) -> S] :
     \A i, j \in 1..Cardinality(S) : i # j => s[i] # s[j]}

\* ------------------------------------------------------ TagSchema (checkTags)
\* NewChkTblMap with "p" left out of kind 1
ChkTblMapBadP ==
  (1 :> <<"content-warning", "client", "e", "emoji", "expiration", "q", "r", "t">>)
  @@ (6 :> <<"e", "p">>)
  @@ (10000 :> <<"e", "p", "t", "word">>)
  @@ (10001 :> <<"e">>)
  @@ (30315 :> <<"d", "emoji", "expiration", "r">>)

NewChkTblMap ==
  (1 :> <<"content-warning", "client", "e", "emoji", "expiration", "p", "q", "r", "t">>)
  @@ (6 :> <<"e", "p">>)
  @@ (10000 :> <<"e", "p", "t", "word">>)
  @@ (10001 :> <<"e">>)
  @@ (30315 :> <<"d", "emoji", "expiration", "r">>)

\* r[kind] of a Go map: the zero value (a nil slice) for an absent key
ChkTblMapAt(r, kind) == IF kind \in DOMAIN r THEN r[kind] ELSE <<>>

sliceToMap(r, kind) ==
  {ChkTblMapAt(r, kind)[i] : i \in 1..Len(ChkTblMapAt(r, kind))}

contains(r, kind, target) == target \in sliceToMap(r, kind)

\* the range loop of checkTags from Go index i on: "ok" (nil), "invalid" (the
\* error of the first tag whose name is not allowed) or "panic" (tg[0] of a
\* tag without elements: index out of range)
RECURSIVE checkTagsFrom(_, _, _)
checkTagsFrom(kind, elems, i) ==
  IF i >= Len(elems) THEN "ok"
  ELSE IF Len(At(elems, i)) <= indexTagName THEN "panic"
  ELSE IF ~contains(NewChkTblMap, kind, At(At(elems, i), indexTagName))
       THEN "invalid"
  ELSE checkTagsFrom(kind, elems, i + 1)

\* checkTags that returns after looking at the first tag
checkTagsFirstOnly(kind, tgs) ==
  IF Len(tgs.elems) = 0 THEN "ok"
  ELSE IF Len(At(tgs.elems, 0)) <= indexTagName THEN "panic"
  ELSE IF ~contains(NewChkTblMap, kind, At(At(tgs.elems, 0), indexTagName))
       THEN "invalid"
  ELSE "ok"

checkTags(kind, tgs) == checkTagsFrom(kind, tgs.elems, 0)

\* ------------------------------------- SubcommandRegistry (buildJson, addTags)
NewSubCmdKindTbl == ("pubMessage" :> 1) @@ ("pubMessageTo" :> 1)

NewConvArgsTagsTbl ==
  ("pubMessage" :> (3 :> <<"content-warning">>))
  @@ ("pubMessageTo" :> (3 :> <<"p">>))

\* the error of hasSubcommand, "" for nil
SubCmdKindTbl_hasSubcommand(r, a) ==
  IF subCommandName >= Len(a) THEN "index out of range in args"
  ELSE IF At(a, subCommandName) \notin DOMAIN r THEN "Not supported subcommand"
  ELSE ""

SubCmdKindTbl_get(r, a) ==
  IF SubCmdKindTbl_hasSubcommand(r, a) # ""
    THEN [v |-> 0, err |-> SubCmdKindTbl_hasSubcommand(r, a)]
    ELSE [v |-> r[At(a, subCommandName)], err |-> ""]

\* hasSubcommand without the lookup of the subcommand name
ConvArgsTagsTbl_hasSubcommandLenOnly(r, a) ==
  IF subCommandName >= Len(a) THEN "index out of range in args"
  ELSE ""

ConvArgsTagsTbl_hasSubcommand(r, a) ==
  IF subCommandName >= Len(a) THEN "index out of range in args"
  ELSE IF At(a, subCommandName) \notin DOMAIN r THEN "Not supported subcommand"
  ELSE ""

\* addTags that appends the argument before the tag name
addTagsSwapped(a, index, tgs) ==
  IF ConvArgsTagsTbl_hasSubcommand(NewConvArgsTagsTbl, a) # ""
    THEN [tgs |-> tgs, panic |-> FALSE,
          err |-> ConvArgsTagsTbl_hasSubcommand(NewConvArgsTagsTbl, a)]
  ELSE IF index \notin DOMAIN NewConvArgsTagsTbl[At(a, subCommandName)]
    THEN [tgs |-> tgs, err |-> "", panic |-> TRUE]
  ELSE [tgs |-> GoAppend(tgs,
                  <<At(a, index),
                    At(NewConvArgsTagsTbl[At(a, subCommandName)][index], 0)>>),
        err |-> "", panic |-> FALSE]

\* addTags: list[cmd][index] of an index without a binding is a nil slice,
\* and element 0 of it a run-time panic (index out of range)
addTags(a, index, tgs) ==
  IF ConvArgsTagsTbl_hasSubcommand(NewConvArgsTagsTbl, a) # ""
    THEN [tgs |-> tgs, panic |-> FALSE,
          err |-> ConvArgsTagsTbl_hasSubcommand(NewConvArgsTagsTbl, a)]
  ELSE IF index \notin DOMAIN NewConvArgsTagsTbl[At(a, subCommandName)]
    THEN [tgs |-> tgs, err |-> "", panic |-> TRUE]
  ELSE [tgs |-> GoAppend(tgs,
                  <<At(NewConvArgsTagsTbl[At(a, subCommandName)][index], 0),
                    At(a, index)>>),
        err |-> "", panic |-> FALSE]

\* json.Marshal(ret): the object's fields in the order of RawArg, <<>> being
\* the empty string; a nil Tags is written as null
jsonMarshal(r) ==
  <<r.Kind, r.Content, [null |-> r.Tags.isNil, elems |-> r.Tags.elems]>>

\* ------------------------------------------------------------ ContentScanner
\* A string is the sequence of its characters, each a one-character string.
Rep(c, n) == [i \in 1..n |-> c]

RECURSIVE Flatten(_)
Flatten(parts) ==
  IF parts = <<>> THEN <<>> ELSE Head(parts) \o Flatten(Tail(parts))

\* the least element of a non-empty set of numbers
Least(S) == CHOOSE m \in S : \A x \in S : m <= x

\* the literal p occurs in s at Go offset i
OccursAt(s, p, i) ==
  /\ i + Len(p) <= Len(s)
  /\ \A k \in 1..Len(p) : s[i + k] = p[k]

\* strings.Contains / an unanchored literal pattern
HasSubstring(s, p) == \E i \in 0..(Len(s) - Len(p)) : OccursAt(s, p, i)

\* [a-zA-Z0-9]
Alnum ==
  {"a", "b", "c", "d", "e", "f", "g", "h", "i", "j", "k", "l", "m",
   "n", "o", "p", "q", "r", "s", "t", "u", "v", "w", "x", "y", "z",
   "A", "B", "C", "D", "E", "F", "G", "H", "I", "J", "K", "L", "M",
   "N", "O", "P", "Q", "R", "S", "T", "U", "V", "W", "X", "Y", "Z",
   "0", "1", "2", "3", "4", "5", "6", "7", "8", "9"}

NsecPrefix == <<"n", "s", "e", "c", "1">>
\* the length of a match of nsec1[a-zA-Z0-9]{58}
NsecMatchLen == Len(NsecPrefix) + nsecKeyLen

\* the pattern nsec1[a-zA-Z0-9]{58} matches text at Go offset i
nsecMatchAt(text, i) ==
  /\ i + NsecMatchLen <= Len(text)
  /\ OccursAt(text, NsecPrefix, i)
  /\ \A k \in 1..nsecKeyLen : text[i + Len(NsecPrefix) + k] \in Alnum

\* re.FindAllString(text, -1): the Go offsets of the leftmost matches that do
\* not overlap, the search going on behind the end of each match
RECURSIVE findAllNsec(_, _)
findAllNsec(text, from) ==
  LET c == {i \in from..(Len(text) - NsecMatchLen) : nsecMatchAt(text, i)}
  IN IF c = {} THEN <<>>
     ELSE <<Least(c)>> \o findAllNsec(text, Least(c) + NsecMatchLen)

\* containsNsec1: true for a match whose part behind the prefix (match[5:])
\* does not match the pattern nsec1 anywhere
containsNsec1(text) ==
  \E j \in 1..Len(findAllNsec(text, 0)) :
     ~HasSubstring(SubSeq(text,
                          findAllNsec(text, 0)[j] + Len(NsecPrefix) + 1,
                          findAllNsec(text, 0)[j] + NsecMatchLen),
                   NsecPrefix)

\* the greatest element of a non-empty set of numbers
Greatest(S) == CHOOSE m \in S : \A x \in S : x <= m

\* [#\uFE5F\uFF03]: the number sign, the small and the fullwidth number sign
HashDelims == {"#", "U+FE5F", "U+FF03"}
\* \s of Go's regexp: [\t\n\f\r ]
Space == {" ", "\t", "\n", "\f", "\r"}

\* (?:^|\s) for a match that starts at Go offset i: the offsets where the
\* group behind it begins, ^ (offset 0 only) before \s
groupStarts(s, i) ==
  (IF i = 0 THEN {i} ELSE {})
    \cup (IF i < Len(s) /\ s[i + 1] \in Space THEN {i + 1} ELSE {})

\* ([#..][^#..]\S*[#..]\S*) from Go offset j: the offsets where it can end
parsignEnds(s, j) ==
  {e \in (j + 3)..Len(s) :
     /\ s[j + 1] \in HashDelims
     /\ s[j + 2] \notin HashDelims
     /\ \E d \in (j + 3)..e :
          /\ s[d] \in HashDelims
          /\ \A k \in (j + 3)..(d - 1) : s[k] \notin Space
          /\ \A k \in (d + 1)..e : s[k] \notin Space}

\* the group starts of a match of the pattern of excludeHashtagsParsign at i
parsignStarts(s, i) == {j \in groupStarts(s, i) : parsignEnds(s, j) # {}}

\* re.ReplaceAllString(src, ""): src from Go offset `from` on, without the
\* leftmost matches that do not overlap; \S* is greedy
RECURSIVE removeParsign(_, _)
removeParsign(s, from) ==
  LET c == {i \in from..Len(s) : parsignStarts(s, i) # {}}
  IN IF c = {} THEN SubSeq(s, from + 1, Len(s))
     ELSE SubSeq(s, from + 1, Least(c))
            \o removeParsign(s, Greatest(parsignEnds(s, Least(parsignStarts(s, Least(c))))))

\* excludeHashtagsParsign: the result string (the pattern compiles, err is nil)
excludeHashtagsParsign(src) == removeParsign(src, 0)

\* ([#..][^#\s..]+[^\s|$]) from Go offset j: the offsets where it can end
hashTagEnds(s, j) ==
  {e \in (j + 3)..Len(s) :
     /\ s[j + 1] \in HashDelims
     /\ \A k \in (j + 2)..(e - 1) : s[k] \notin HashDelims \cup Space
     /\ s[e] \notin Space \cup {"|", "$"}}

\* the group starts of a match of the pattern of setHashTags at i
hashTagStarts(s, i) == {j \in groupStarts(s, i) : hashTagEnds(s, j) # {}}

\* re.FindAllString(buf, -1): the leftmost matches that do not overlap, the
\* text before the group included; + is greedy
RECURSIVE findAllHashTags(_, _)
findAllHashTags(s, from) ==
  LET c == {i \in from..Len(s) : hashTagStarts(s, i) # {}}
  IN IF c = {} THEN <<>>
     ELSE LET e == Greatest(hashTagEnds(s, Least(hashTagStarts(s, Least(c)))))
          IN <<SubSeq(s, Least(c) + 1, e)>> \o findAllHashTags(s, e)

\* rtmp.ReplaceAllString(match, "") for the pattern [\s#..]
stripDelims(m) == SelectSeq(m, LAMBDA c : c \notin Space \cup HashDelims)

\* ExTag: addTagName, addTagValue and getNostrTag give the tag [name, value]
ExTag(name, value) == <<name, value>>

\* the loop of setHashTags over matches[i..], appending to tgs
RECURSIVE appendHashTags(_, _)
appendHashTags(matches, tgs) ==
  IF matches = <<>> THEN tgs
  ELSE appendHashTags(Tail(matches),
                      GoAppend(tgs, ExTag("t", stripDelims(Head(matches)))))

\* setHashTags(buf, tgs): the value of *tgs on return
setHashTags(buf, tgs) == appendHashTags(findAllHashTags(buf, 0), tgs)

\* ------------------------------------------------------------------- state
VARIABLES
  \* the environment of one invocation
  args,        \* os.Args
  homeOk,      \* getDir succeeds ($HOME set, ~/.nostk usable)
  relayFile,   \* relays.json: [st, p], p the map of URL to RwFlag
  keyFile,     \* .hsec
  profileFile, \* profile.json
  \* publish command
  pc,          \* position in main / publishX
  content,     \* the Content the event is assembled from
  tags,        \* the Tags the event is assembled from
  sk,          \* what readPrivateKey returned
  rl,          \* the relay URLs getRelayList appended
  idx,         \* Go index of the for-range loop over rl
  signed,      \* the events ev.Sign was called on
  status,      \* per relay URL: its attempt's state
  connectCalls, \* per relay URL: calls of nostr.RelayConnect
  publishCalls, \* per relay URL: calls of relay.Publish
  console,     \* the lines the loop wrote, in order: <<url, outcome>>
  stderr,      \* the errors that ended the process
  exit,        \* "running", "ok" (status 0), "fatal" (log.Fatal), "panic"
  \* checkTags
  ctKind, ctTags, ctRes,
  \* buildJson
  bArgs, bPc, bI, ret, out,
  \* containsNsec1
  nsText, nsRes,
  \* hashtag extraction: excludeHashtagsParsign, then setHashTags
  htContent, htOld, htBuf, htTags, htPc

pubVars == <<args, homeOk, relayFile, keyFile, profileFile, pc, content,
             tags, sk, rl, idx, signed,
             status, connectCalls, publishCalls, console, stderr, exit>>
ctVars == <<ctKind, ctTags, ctRes>>
bVars == <<bArgs, bPc, bI, ret, out>>
nsVars == <<nsText, nsRes>>
htVars == <<htContent, htOld, htBuf, htTags, htPc>>
scanVars == <<nsVars, htVars>>
vars == <<pubVars, ctVars, bVars, scanVars>>

\* ------------------------------------------------------------- environment
Urls == 1..MaxRelays
RwFlag == [Read : BOOLEAN, Write : BOOLEAN]
RelayMaps == UNION {[S -> RwFlag] : S \in SUBSET Urls}
RelayFiles ==
  {[st |-> "NoFile", p |-> <<>>], [st |-> "BadJson", p |-> <<>>]}
  \cup {[st |-> "Ok", p |-> m] : m \in RelayMaps}
\* .hsec: absent, without a non-empty line (or unreadable: the error of
\* ReadFile is dropped), a line that is no hex string, a hex key
KeyFiles == {"NoFile", "Empty", "NotHex", "Hex"}
ProfileFiles == {"NoFile", "Profile"}
PublishArgs ==
  {<<"nostk", "pubProfile">>, <<"nostk", "pubRelays">>,
   <<"nostk", "pubMessage">>, <<"nostk", "pubMessage", "">>,
   <<"nostk", "pubMessage", "hello">>}

IdleCt == ctKind = 0 /\ ctTags = NilSlice /\ ctRes = "idle"
IdleNsec == nsText = <<>> /\ nsRes = "idle"
IdleHashTags ==
  /\ htContent = <<>> /\ htOld = NilSlice
  /\ htBuf = <<>> /\ htTags = NilSlice /\ htPc = "idle"
IdleScan == IdleNsec /\ IdleHashTags
IdleBuild ==
  /\ bArgs = <<>> /\ bPc = "idle" /\ bI = 0
  /\ ret = [Kind |-> 0, Content |-> "", Tags |-> NilSlice]
  /\ out = [json |-> <<>>, err |-> ""]
IdlePub ==
  /\ args = <<>> /\ homeOk = TRUE /\ relayFile = [st |-> "NoFile", p |-> <<>>]
  /\ keyFile = "NoFile" /\ profileFile = "NoFile"
  /\ pc = "idle" /\ content = "" /\ tags = NilSlice /\ sk = "" /\ rl = <<>>
  /\ idx = 0 /\ signed = {}
  /\ status = [u \in Urls |-> "NotAttempted"]
  /\ connectCalls = [u \in Urls |-> 0]
  /\ publishCalls = [u \in Urls |-> 0]
  /\ console = <<>> /\ stderr = <<>> /\ exit = "running"

Init ==
  /\ args \in PublishArgs
  /\ homeOk \in BOOLEAN
  /\ relayFile \in RelayFiles
  /\ keyFile \in KeyFiles
  /\ profileFile \in ProfileFiles
  /\ pc = "main" /\ content = "" /\ tags = NilSlice /\ sk = "" /\ rl = <<>>
  /\ idx = 0 /\ signed = {}
  /\ status = [u \in Urls |-> "NotAttempted"]
  /\ connectCalls = [u \in Urls |-> 0]
  /\ publishCalls = [u \in Urls |-> 0]
  /\ console = <<>> /\ stderr = <<>> /\ exit = "running"
  /\ IdleCt /\ IdleBuild /\ IdleScan

\* ---------------------------------------------------------- publish command
\* log.Fatal(err) in main: the error goes to stderr, exit status 1
Fatal(e) ==
  /\ stderr' = Append(stderr, e)
  /\ exit' = "fatal"
  /\ pc' = "done"

\* readRelayList and json.Unmarshal into map[string]RwFlag
readRelayListErr ==
  IF ~homeOk THEN "Not set HOME environmental variables"
  ELSE IF relayFile.st = "NoFile" THEN "stat relays.json"
  ELSE IF relayFile.st = "BadJson" THEN "json.Unmarshal relays.json"
  ELSE ""

\* main: the switch on os.Args[1]
Main ==
  /\ pc = "main"
  /\ IF At(args, 1) = "pubProfile"
       THEN pc' = "readProfile" /\ UNCHANGED <<stderr, exit>>
     ELSE IF At(args, 1) = "pubRelays"
       THEN pc' = "relayTags" /\ UNCHANGED <<stderr, exit>>
     ELSE IF Len(args) < 3
       THEN Fatal("Not set text message")
     ELSE pc' = "checkMessage" /\ UNCHANGED <<stderr, exit>>
  /\ UNCHANGED <<args, homeOk, relayFile, keyFile, profileFile,
                 content, tags, sk, rl, idx, signed,
                 status, connectCalls, publishCalls, console>>
  /\ UNCHANGED <<ctVars, bVars, scanVars>>

\* publishMessage: the check of s
CheckMessage ==
  /\ pc = "checkMessage"
  /\ IF Len(At(args, 2)) < 1
       THEN Fatal("Not set text message") /\ UNCHANGED content
       ELSE /\ content' = At(args, 2)
            /\ pc' = "readPrivateKey"
            /\ UNCHANGED <<stderr, exit>>
  /\ UNCHANGED <<args, homeOk, relayFile, keyFile, profileFile,
                 tags, sk, rl, idx, signed,
                 status, connectCalls, publishCalls, console>>
  /\ UNCHANGED <<ctVars, bVars, scanVars>>

\* publishProfile: readProfile
ReadProfile ==
  /\ pc = "readProfile"
  /\ IF ~homeOk THEN
         Fatal("Not set HOME environmental variables") /\ UNCHANGED content
       ELSE IF profileFile = "NoFile" THEN
         Fatal("stat profile.json") /\ UNCHANGED content
       ELSE /\ content' = "profile"
            /\ pc' = "readPrivateKey"
            /\ UNCHANGED <<stderr, exit>>
  /\ UNCHANGED <<args, homeOk, relayFile, keyFile, profileFile,
                 tags, sk, rl, idx, signed,
                 status, connectCalls, publishCalls, console>>
  /\ UNCHANGED <<ctVars, bVars, scanVars>>

\* publishRelayList: the "r" tag of one entry of relays.json
RelayTag(u, f) ==
  IF f.Read /\ f.Write THEN <<"r", u>>
  ELSE IF f.Read THEN <<"r", u, "read">>
  ELSE IF f.Write THEN <<"r", u, "write">>
  ELSE <<"r", u>>

\* publishRelayList: read relays.json and build one tag per entry, in the
\* order the range over the map yields
RelayTags ==
  /\ pc = "relayTags"
  /\ IF readRelayListErr # ""
       THEN Fatal(readRelayListErr) /\ UNCHANGED tags
       ELSE /\ \E o \in Perms(DOMAIN relayFile.p) :
                 tags' = [isNil |-> FALSE,
                          elems |-> [i \in 1..Len(o) |->
                                       RelayTag(o[i], relayFile.p[o[i]])]]
            /\ pc' = "readPrivateKey"
            /\ UNCHANGED <<stderr, exit>>
  /\ UNCHANGED <<args, homeOk, relayFile, keyFile, profileFile,
                 content, sk, rl, idx, signed,
                 status, connectCalls, publishCalls, console>>
  /\ UNCHANGED <<ctVars, bVars, scanVars>>

\* readPrivateKey: k[0] of an empty k is a run-time panic
ReadPrivateKey ==
  /\ pc = "readPrivateKey"
  /\ IF ~homeOk THEN
         Fatal("Not set HOME environmental variables") /\ UNCHANGED sk
       ELSE IF keyFile = "NoFile" THEN
         Fatal("stat .hsec") /\ UNCHANGED sk
       ELSE IF keyFile = "Empty" THEN
         /\ stderr' = Append(stderr, "panic: index out of range [0]")
         /\ exit' = "panic"
         /\ pc' = "done"
         /\ UNCHANGED sk
       ELSE /\ sk' = keyFile
            /\ pc' = "getPublicKey"
            /\ UNCHANGED <<stderr, exit>>
  /\ UNCHANGED <<args, homeOk, relayFile, keyFile, profileFile,
                 content, tags, rl, idx, signed,
                 status, connectCalls, publishCalls, console>>
  /\ UNCHANGED <<ctVars, bVars, scanVars>>

\* nostr.GetPublicKey(sk): fails on a key that is no hex string
GetPublicKey ==
  /\ pc = "getPublicKey"
  /\ IF sk # "Hex"
       THEN Fatal("encoding/hex: invalid byte")
       ELSE pc' = "getRelayList" /\ UNCHANGED <<stderr, exit>>
  /\ UNCHANGED <<args, homeOk, relayFile, keyFile, profileFile,
                 content, tags, sk, rl, idx, signed,
                 status, connectCalls, publishCalls, console>>
  /\ UNCHANGED <<ctVars, bVars, scanVars>>

\* getRelayList whose error is dropped: the loop runs over no relay
GetRelayListDropErr ==
  /\ pc = "getRelayList"
  /\ rl' \in Perms(IF readRelayListErr # "" THEN {} ELSE DOMAIN relayFile.p)
  /\ pc' = "sign"
  /\ UNCHANGED <<stderr, exit>>
  /\ UNCHANGED <<args, homeOk, relayFile, keyFile, profileFile,
                 content, tags, sk, idx, signed,
                 status, connectCalls, publishCalls, console>>
  /\ UNCHANGED <<ctVars, bVars, scanVars>>

\* getRelayList that keeps the relays stored with write = true only
GetRelayListWriteOnly ==
  /\ pc = "getRelayList"
  /\ IF readRelayListErr # ""
       THEN Fatal(readRelayListErr) /\ UNCHANGED rl
       ELSE /\ rl' \in Perms({u \in DOMAIN relayFile.p : relayFile.p[u].Write})
            /\ pc' = "sign"
            /\ UNCHANGED <<stderr, exit>>
  /\ UNCHANGED <<args, homeOk, relayFile, keyFile, profileFile,
                 content, tags, sk, idx, signed,
                 status, connectCalls, publishCalls, console>>
  /\ UNCHANGED <<ctVars, bVars, scanVars>>

\* getRelayList: the keys of relays.json in the order the range yields
GetRelayList ==
  /\ pc = "getRelayList"
  /\ IF readRelayListErr # ""
       THEN Fatal(readRelayListErr) /\ UNCHANGED rl
       ELSE /\ rl' \in Perms(DOMAIN relayFile.p)
            /\ pc' = "sign"
            /\ UNCHANGED <<stderr, exit>>
  /\ UNCHANGED <<args, homeOk, relayFile, keyFile, profileFile,
                 content, tags, sk, idx, signed,
                 status, connectCalls, publishCalls, console>>
  /\ UNCHANGED <<ctVars, bVars, scanVars>>

\* the Kind each publish command sets
EventKind ==
  IF At(args, 1) = "pubProfile" THEN KindSetMetadata
  ELSE IF At(args, 1) = "pubRelays" THEN KindRelayListMetadata
  ELSE KindTextNote

\* ev := nostr.Event{...}; ev.Sign(sk)
Sign ==
  /\ pc = "sign"
  /\ signed' = signed \cup
                  {[Kind |-> EventKind, Tags |-> tags, Content |-> content]}
  /\ idx' = 0
  /\ pc' = "loop"
  /\ UNCHANGED <<args, homeOk, relayFile, keyFile, profileFile,
                 content, tags, sk, rl,
                 status, connectCalls, publishCalls, console, stderr, exit>>
  /\ UNCHANGED <<ctVars, bVars, scanVars>>

\* the return after the loop turned into a verdict over the relay outcomes
LoopReturnVerdict ==
  /\ pc = "loop"
  /\ idx >= Len(rl)
  /\ IF \E i \in 1..Len(rl) : status[rl[i]] # "Published"
       THEN Fatal("publish failed")
       ELSE exit' = "ok" /\ pc' = "done" /\ UNCHANGED stderr
  /\ UNCHANGED <<args, homeOk, relayFile, keyFile, profileFile,
                 content, tags, sk, rl, idx, signed,
                 status, connectCalls, publishCalls, console>>
  /\ UNCHANGED <<ctVars, bVars, scanVars>>

\* the loop over rl is exhausted: return nil
LoopReturn ==
  /\ pc = "loop"
  /\ idx >= Len(rl)
  /\ exit' = "ok"
  /\ pc' = "done"
  /\ UNCHANGED <<args, homeOk, relayFile, keyFile, profileFile,
                 content, tags, sk, rl, idx, signed,
                 status, connectCalls, publishCalls, console, stderr>>
  /\ UNCHANGED <<ctVars, bVars, scanVars>>

\* for _, url := range rl takes the next url:
\* nostr.RelayConnect(ctx, url) is called
RelayConnectCall ==
  /\ pc = "loop"
  /\ idx < Len(rl)
  /\ status' = [status EXCEPT ![At(rl, idx)] = "Connecting"]
  /\ connectCalls' = [connectCalls EXCEPT ![At(rl, idx)] = @ + 1]
  /\ pc' = "connecting"
  /\ UNCHANGED <<args, homeOk, relayFile, keyFile, profileFile,
                 content, tags, sk, rl, idx, signed,
                 publishCalls, console, stderr, exit>>
  /\ UNCHANGED <<ctVars, bVars, scanVars>>

\* RelayConnect returns: a return in place of the continue
RelayConnectReturnAbort ==
  /\ pc = "connecting"
  /\ \E ok \in BOOLEAN :
       IF ok
         THEN /\ status' = [status EXCEPT ![At(rl, idx)] = "Connected"]
              /\ pc' = "connected"
              /\ UNCHANGED <<idx, console, exit>>
         ELSE /\ status' = [status EXCEPT ![At(rl, idx)] = "ConnectFailed"]
              /\ console' = Append(console, <<At(rl, idx), "connect error">>)
              /\ exit' = "ok"
              /\ pc' = "done"
              /\ UNCHANGED idx
  /\ UNCHANGED <<args, homeOk, relayFile, keyFile, profileFile,
                 content, tags, sk, rl, signed,
                 connectCalls, publishCalls, stderr>>
  /\ UNCHANGED <<ctVars, bVars, scanVars>>

\* nostr.RelayConnect returns: on an error, fmt.Println(err); continue
RelayConnectReturn ==
  /\ pc = "connecting"
  /\ \E ok \in BOOLEAN :
       IF ok
         THEN /\ status' = [status EXCEPT ![At(rl, idx)] = "Connected"]
              /\ pc' = "connected"
              /\ UNCHANGED <<idx, console>>
         ELSE /\ status' = [status EXCEPT ![At(rl, idx)] = "ConnectFailed"]
              /\ console' = Append(console, <<At(rl, idx), "connect error">>)
              /\ idx' = idx + 1
              /\ pc' = "loop"
  /\ UNCHANGED <<args, homeOk, relayFile, keyFile, profileFile,
                 content, tags, sk, rl, signed,
                 connectCalls, publishCalls, stderr, exit>>
  /\ UNCHANGED <<ctVars, bVars, scanVars>>

\* relay.Publish(ctx, ev) is called
RelayPublishCall ==
  /\ pc = "connected"
  /\ status' = [status EXCEPT ![At(rl, idx)] = "Publishing"]
  /\ publishCalls' = [publishCalls EXCEPT ![At(rl, idx)] = @ + 1]
  /\ pc' = "publishing"
  /\ UNCHANGED <<args, homeOk, relayFile, keyFile, profileFile,
                 content, tags, sk, rl, idx, signed,
                 connectCalls, console, stderr, exit>>
  /\ UNCHANGED <<ctVars, bVars, scanVars>>

\* relay.Publish returns: a failed relay is tried once more
RelayPublishReturnRetry ==
  /\ pc = "publishing"
  /\ \E ok \in BOOLEAN :
       IF ok
         THEN /\ status' = [status EXCEPT ![At(rl, idx)] = "Published"]
              /\ console' = Append(console, <<At(rl, idx), "published">>)
              /\ idx' = idx + 1
              /\ pc' = "loop"
         ELSE /\ status' = [status EXCEPT ![At(rl, idx)] = "PublishFailed"]
              /\ console' = Append(console, <<At(rl, idx), "publish error">>)
              /\ idx' = IF publishCalls[At(rl, idx)] < 2 THEN idx ELSE idx + 1
              /\ pc' = "loop"
  /\ UNCHANGED <<args, homeOk, relayFile, keyFile, profileFile,
                 content, tags, sk, rl, signed,
                 connectCalls, publishCalls, stderr, exit>>
  /\ UNCHANGED <<ctVars, bVars, scanVars>>

\* relay.Publish returns: on an error, fmt.Println(err); continue; else the
\* "published to" line
RelayPublishReturn ==
  /\ pc = "publishing"
  /\ \E ok \in BOOLEAN :
       /\ status' = [status EXCEPT ![At(rl, idx)] =
                       IF ok THEN "Published" ELSE "PublishFailed"]
       /\ console' = Append(console,
                       <<At(rl, idx), IF ok THEN "published" ELSE "publish error">>)
  /\ idx' = idx + 1
  /\ pc' = "loop"
  /\ UNCHANGED <<args, homeOk, relayFile, keyFile, profileFile,
                 content, tags, sk, rl, signed,
                 connectCalls, publishCalls, stderr, exit>>
  /\ UNCHANGED <<ctVars, bVars, scanVars>>

Next ==
  \/ Main
  \/ CheckMessage
  \/ ReadProfile
  \/ RelayTags
  \/ ReadPrivateKey
  \/ GetPublicKey
  \/ GetRelayList
  \/ Sign
  \/ LoopReturn
  \/ RelayConnectCall
  \/ RelayConnectReturn
  \/ RelayPublishCall
  \/ RelayPublishReturn

Spec == Init /\ [][Next]_vars

\* ------------------------------------------------------------ checkTags run
TagNames ==
  UNION {sliceToMap(NewChkTblMap, k) : k \in DOMAIN NewChkTblMap} \cup {"bogus"}
\* a tag: a name and a value, or a tag without elements
TagShapes == {<<>>} \cup {<<n, "x">> : n \in TagNames}
TagSeqs == UNION {[1..n -> TagShapes] : n \in 0..MaxTags}
TagSlices == {NilSlice} \cup {[isNil |-> FALSE, elems |-> e] : e \in TagSeqs}
ChkKinds ==
  DOMAIN NewChkTblMap \cup {KindSetMetadata, KindRelayListMetadata, 7}

InitCheckTags ==
  /\ ctKind \in ChkKinds
  /\ ctTags \in TagSlices
  /\ ctRes = "none"
  /\ IdlePub /\ IdleBuild /\ IdleScan

\* checkTags(ctKind, ctTags) is called and returns
CheckTagsCall ==
  /\ ctRes = "none"
  /\ ctRes' = checkTags(ctKind, ctTags)
  /\ UNCHANGED <<ctKind, ctTags, pubVars, bVars, scanVars>>

NextCheckTags == CheckTagsCall

SpecCheckTags == InitCheckTags /\ [][NextCheckTags]_vars

\* ------------------------------------------------------------ buildJson run
ArgStrings == {"nostk", "pubMessage", "pubMessageTo", "unknownCmd", "hello"}
ArgLists == UNION {[1..n -> ArgStrings] : n \in 0..MaxArgs}

InitBuild ==
  /\ bArgs \in ArgLists
  /\ bPc = "entry"
  /\ bI = 0
  /\ ret = [Kind |-> 0, Content |-> "", Tags |-> NilSlice]
  /\ out = [json |-> <<>>, err |-> ""]
  /\ IdlePub /\ IdleCt /\ IdleScan

\* return "", err
BuildReturnErr(e) ==
  /\ out' = [json |-> <<>>, err |-> e]
  /\ bPc' = "done"

\* buildJson: var ret RawArg; the tables; list.hasSubcommand(args)
BuildJsonEnter ==
  /\ bPc = "entry"
  /\ IF ConvArgsTagsTbl_hasSubcommand(NewConvArgsTagsTbl, bArgs) # ""
       THEN BuildReturnErr(ConvArgsTagsTbl_hasSubcommand(NewConvArgsTagsTbl, bArgs))
       ELSE bPc' = "loop" /\ UNCHANGED out
  /\ UNCHANGED <<bArgs, bI, ret, pubVars, ctVars, scanVars>>

\* buildJson: one iteration of for i := range args, the switch on i
BuildJsonLoop ==
  /\ bPc = "loop"
  /\ bI < Len(bArgs)
  /\ IF bI = 0 THEN
       /\ bI' = bI + 1
       /\ UNCHANGED <<ret, out, bPc>>
     ELSE IF bI = 1 THEN
       IF SubCmdKindTbl_get(NewSubCmdKindTbl, bArgs).err # ""
         THEN /\ BuildReturnErr(SubCmdKindTbl_get(NewSubCmdKindTbl, bArgs).err)
              /\ UNCHANGED <<ret, bI>>
         ELSE /\ ret' = [ret EXCEPT !.Kind =
                                 SubCmdKindTbl_get(NewSubCmdKindTbl, bArgs).v]
              /\ bI' = bI + 1
              /\ UNCHANGED <<out, bPc>>
     ELSE IF bI = 2 THEN
       /\ ret' = [ret EXCEPT !.Content = At(bArgs, bI)]
       /\ bI' = bI + 1
       /\ UNCHANGED <<out, bPc>>
     ELSE IF addTags(bArgs, bI, ret.Tags).panic THEN
       /\ bPc' = "panic"
       /\ UNCHANGED <<ret, out, bI>>
     ELSE IF addTags(bArgs, bI, ret.Tags).err # "" THEN
       /\ BuildReturnErr(addTags(bArgs, bI, ret.Tags).err)
       /\ UNCHANGED <<ret, bI>>
     ELSE
       /\ ret' = [ret EXCEPT !.Tags = addTags(bArgs, bI, ret.Tags).tgs]
       /\ bI' = bI + 1
       /\ UNCHANGED <<out, bPc>>
  /\ UNCHANGED <<bArgs, pubVars, ctVars, scanVars>>

\* buildJson: json.Marshal(ret); return string(strJson), nil
BuildJsonMarshal ==
  /\ bPc = "loop"
  /\ bI >= Len(bArgs)
  /\ out' = [json |-> jsonMarshal(ret), err |-> ""]
  /\ bPc' = "done"
  /\ UNCHANGED <<bArgs, bI, ret, pubVars, ctVars, scanVars>>

NextBuild ==
  \/ BuildJsonEnter
  \/ BuildJsonLoop
  \/ BuildJsonMarshal

SpecBuild == InitBuild /\ [][NextBuild]_vars

\* -------------------------------------------------------- containsNsec1 run
\* the blocks the scanned texts are made of: the prefix, the prefix thirteen
\* times over (65 characters), runs of 58, 57 and 53 alphanumerics, a letter
\* and a space
NsecBlocks ==
  {NsecPrefix,
   Flatten(Rep(NsecPrefix, 13)),
   Rep("a", nsecKeyLen),
   Rep("9", nsecKeyLen - 1),
   Rep("Z", nsecKeyLen - Len(NsecPrefix)),
   <<"q">>,
   <<" ">>}
NsecTexts == {Flatten(ps) : ps \in UNION {[1..n -> NsecBlocks] : n \in 0..MaxParts}}

InitNsec ==
  /\ nsText \in NsecTexts
  /\ nsRes = "none"
  /\ IdlePub /\ IdleCt /\ IdleBuild /\ IdleHashTags

\* containsNsec1(nsText) is called and returns
ContainsNsec1Call ==
  /\ nsRes = "none"
  /\ nsRes' = IF containsNsec1(nsText) THEN "true" ELSE "false"
  /\ UNCHANGED <<nsText, htVars, pubVars, ctVars, bVars>>

NextNsec == ContainsNsec1Call

SpecNsec == InitNsec /\ [][NextNsec]_vars

\* --------------------------------------------------- hashtag extraction run
\* the characters of the scanned contents: two delimiters, two letters, a
\* space and a bar
ContentChars == {"#", "U+FF03", "a", "b", " ", "|"}
Contents == UNION {[1..n -> ContentChars] : n \in 0..MaxContentLen}
\* the tag sequence at entry: nil, or one tag already present
OldTags == {NilSlice, GoAppend(NilSlice, ExTag("p", <<"a">>))}

InitHashTags ==
  /\ htContent \in Contents
  /\ htOld \in OldTags
  /\ htBuf = htContent
  /\ htTags = htOld
  /\ htPc = "exclude"
  /\ IdlePub /\ IdleCt /\ IdleBuild /\ IdleNsec

\* the content goes through excludeHashtagsParsign first
ExcludeHashtagsParsign ==
  /\ htPc = "exclude"
  /\ htBuf' = excludeHashtagsParsign(htBuf)
  /\ htPc' = "setHashTags"
  /\ UNCHANGED <<htContent, htOld, htTags, nsVars, pubVars, ctVars, bVars>>

\* setHashTags(htBuf, &htTags) is called and returns
SetHashTags ==
  /\ htPc = "setHashTags"
  /\ htTags' = setHashTags(htBuf, htTags)
  /\ htPc' = "done"
  /\ UNCHANGED <<htContent, htOld, htBuf, nsVars, pubVars, ctVars, bVars>>

NextHashTags == ExcludeHashtagsParsign \/ SetHashTags

SpecHashTags == InitHashTags /\ [][NextHashTags]_vars

\* ------------------------------------------------- claims on the publish path
StoredUrls == DOMAIN relayFile.p
NoRelayTouched ==
  /\ \A u \in Urls :
       status[u] = "NotAttempted" /\ connectCalls[u] = 0 /\ publishCalls[u] = 0
  /\ console = <<>>
Failed(u) == status[u] \in {"ConnectFailed", "PublishFailed"}

\* C1: when a publish command has gone through its fan-out loop and finished,
\* nostr.RelayConnect has been called for every URL of the relay list,
\* whatever the connect and publish outcomes at the other relays were, and
\* the console holds one line per relay, in the order of the list.
AllRelaysAttempted ==
  (pc = "done" /\ signed # {}) =>
     /\ \A u \in StoredUrls : connectCalls[u] >= 1 /\ status[u] # "NotAttempted"
     /\ Len(console) = Len(rl)
     /\ \A i \in 1..Len(rl) : console[i][1] = rl[i]

\* a finished run over three relays where the attempt at Go index 1 failed to
\* connect and the relays before and after it were still attempted
FailureAtIndexOneWitness ==
  /\ pc = "done" /\ exit = "ok" /\ Len(rl) = 3
  /\ status[At(rl, 1)] = "ConnectFailed"
  /\ status[At(rl, 0)] = "PublishFailed"
  /\ status[At(rl, 2)] = "Published"

\* the transitions of one relay attempt
AttemptEdges ==
  {<<"NotAttempted", "Connecting">>,
   <<"Connecting", "ConnectFailed">>, <<"Connecting", "Connected">>,
   <<"Connected", "Publishing">>,
   <<"Publishing", "Published">>, <<"Publishing", "PublishFailed">>}

\* C2: the state of a relay attempt changes only along NotAttempted ->
\* Connecting -> (ConnectFailed | Connected -> Publishing -> (Published |
\* PublishFailed)), so the three end states are never left and the event is
\* submitted only after a successful connect; no relay is connected to or
\* published to twice.
RelayAttemptStateMachine ==
  /\ [][\A u \in Urls :
          status'[u] # status[u] => <<status[u], status'[u]>> \in AttemptEdges]_vars
  /\ [](\A u \in Urls :
          /\ connectCalls[u] <= 1 /\ publishCalls[u] <= 1
          /\ publishCalls[u] = 1 =>
                status[u] \in {"Publishing", "Published", "PublishFailed"})

\* a finished run in which the three end states all occur
AllEndStatesWitness ==
  /\ pc = "done"
  /\ \E u, v, w \in Urls :
       /\ status[u] = "Published" /\ publishCalls[u] = 1
       /\ status[v] = "PublishFailed" /\ publishCalls[v] = 1
       /\ status[w] = "ConnectFailed" /\ connectCalls[w] = 1
                                      /\ publishCalls[w] = 0

\* the environment makes a pre-flight check of the command fail
PreflightFails ==
  \/ ~homeOk
  \/ At(args, 1) = "pubMessage" /\ (Len(args) < 3 \/ At(args, 2) = "")
  \/ At(args, 1) = "pubProfile" /\ profileFile = "NoFile"
  \/ keyFile # "Hex"
  \/ relayFile.st # "Ok"

PublishReturnsNil ==
  (~PreflightFails /\ pc = "done") =>
     /\ exit = "ok" /\ stderr = <<>>
     /\ \A u \in StoredUrls : connectCalls[u] = 1

\* a run that ended with success although every one of its relays failed
AllRelaysFailedWitness ==
  /\ pc = "done" /\ exit = "ok"
  /\ Cardinality(StoredUrls) >= 2
  /\ \A u \in StoredUrls : Failed(u)
  /\ \E u \in StoredUrls : status[u] = "ConnectFailed"
  /\ \E u \in StoredUrls : status[u] = "PublishFailed"

\* C13: the URLs a publish command attempts are the keys of relays.json,
\* each once and no other URL, whatever the read and write flags stored with
\* them: rl holds every key exactly once, a URL that is no key is never
\* connected or published to, and a finished run has connected once to every
\* key.
AttemptedUrlsAreStoredKeys ==
  /\ \A u \in Urls \ StoredUrls :
       connectCalls[u] = 0 /\ publishCalls[u] = 0 /\ status[u] = "NotAttempted"
  /\ (pc = "sign" \/ signed # {}) =>
       /\ Len(rl) = Cardinality(StoredUrls)
       /\ {rl[i] : i \in 1..Len(rl)} = StoredUrls
  /\ (pc = "done" /\ exit = "ok") =>
       \A u \in StoredUrls : connectCalls[u] = 1

\* a finished run that published to a relay stored with read = false and
\* write = false and to one stored with write = false only, attempted in
\* another order than that of the URLs
UnwritableRelayPublishedWitness ==
  /\ pc = "done" /\ exit = "ok" /\ Len(rl) = 3
  /\ At(rl, 0) > At(rl, 1)
  /\ \E u, v \in StoredUrls :
       /\ ~relayFile.p[u].Read /\ ~relayFile.p[u].Write
       /\ status[u] = "Published" /\ publishCalls[u] = 1
       /\ relayFile.p[v].Read /\ ~relayFile.p[v].Write
       /\ status[v] = "Published" /\ connectCalls[v] = 1

\* ----------------------------------------------------- claims on checkTags
\* the allowed set of a kind: the names the schema lists, none for a kind it
\* lacks
AllowedSet(kind) ==
  IF kind \in DOMAIN NewChkTblMap
    THEN {NewChkTblMap[kind][i] : i \in DOMAIN NewChkTblMap[kind]}
    ELSE {}

\* C5: checkTags returns nil if and only if every tag has a name (element 0)
\* and that name is in the allowed set of the kind; for a kind the schema
\* lacks it returns nil only on a tag sequence without tags.
CheckTagsIffAllAllowed ==
  ctRes \notin {"idle", "none"} =>
     /\ ctRes = "ok" <=>
          \A i \in 1..Len(ctTags.elems) :
             /\ Len(ctTags.elems[i]) > 0
             /\ ctTags.elems[i][1] \in AllowedSet(ctKind)
     /\ ctKind \notin DOMAIN NewChkTblMap =>
          (ctRes = "ok" <=> ctTags.elems = <<>>)

\* kind 1 with the tags [["t","x"],["bogus","x"]] is refused
BogusSecondTagWitness ==
  /\ ctKind = 1
  /\ ctTags.elems = <<(<<"t", "x">>), (<<"bogus", "x">>)>>
  /\ ctRes = "invalid"

\* ----------------------------------------------------- claims on buildJson
Registered(a) == Len(a) > subCommandName /\ At(a, subCommandName) \in DOMAIN NewSubCmdKindTbl
BuildEnded == bPc \in {"done", "panic"}
Returned == bPc = "done" /\ out.err = ""
JsonKind == out.json[1]
JsonContent == out.json[2]
JsonTags == out.json[3]

UnsupportedSubcommandRejected ==
  ~Registered(bArgs) =>
     /\ bPc \in {"idle", "entry", "done"}
     /\ ret = [Kind |-> 0, Content |-> "", Tags |-> NilSlice]
     /\ bPc = "done" =>
          /\ out.json = <<>>
          /\ out.err = IF Len(bArgs) <= subCommandName
                          THEN "index out of range in args"
                          ELSE "Not supported subcommand"

\* buildJson refused [prog, "unknownCmd", "hello", "hello"]
UnknownCmdWitness ==
  /\ bPc = "done" /\ Len(bArgs) = 4 /\ At(bArgs, 1) = "unknownCmd"
  /\ At(bArgs, 2) = "hello"
  /\ out.err = "Not supported subcommand"

\* C8: an argument at a position without a tag binding makes buildJson
\* return the unsupported-subcommand error and no event, without a crash.
UnboundArgumentRejected ==
  (BuildEnded /\ Registered(bArgs) /\
   \E i \in 3..(Len(bArgs) - 1) :
      i \notin DOMAIN NewConvArgsTagsTbl[At(bArgs, subCommandName)]) =>
     /\ bPc = "done"
     /\ out.json = <<>>
     /\ out.err = "Not supported subcommand"

\* C9: every event buildJson returns passes checkTags for its kind.
BuiltEventPassesCheckTags ==
  Returned =>
     checkTags(JsonKind,
               [isNil |-> JsonTags.null, elems |-> JsonTags.elems]) = "ok"

\* buildJson returned an event that carries a tag
BuiltEventWithTagWitness ==
  /\ Returned
  /\ Len(JsonTags.elems) = 1
  /\ At(bArgs, 1) = "pubMessage"
  /\ JsonTags.elems[1][1] = "content-warning"

\* -------------------------------------------- claims on the signed event
\* C10: every event a publish command hands to ev.Sign passes the tag
\* schema of its kind (no tag at all for a kind the schema lacks).
SignedEventsConform ==
  \A e \in signed : checkTags(e.Kind, e.Tags) = "ok"

\* -------------------------------------------------- claims on containsNsec1
\* a value made only of copies of the prefix, the last one cut short
OnlyPrefixCopies(v) ==
  \A k \in 1..Len(v) : v[k] = NsecPrefix[((k - 1) % Len(NsecPrefix)) + 1]

\* the text holds nsec1 followed by 58 alphanumerics that are not just copies
\* of the prefix
LeakToken(text) ==
  \E i \in 0..(Len(text) - NsecMatchLen) :
     /\ nsecMatchAt(text, i)
     /\ ~OnlyPrefixCopies(SubSeq(text, i + Len(NsecPrefix) + 1, i + NsecMatchLen))

\* C11: containsNsec1 reports a leak if and only if the text holds a token
\* nsec1 followed by 58 alphanumerics whose value is not made only of copies
\* of the prefix.
ContainsNsec1IffLeakToken ==
  nsRes \in {"true", "false"} => (nsRes = "true" <=> LeakToken(nsText))

\* --------------------------------------------- claims on hashtag extraction
\* the words of a text: its longest runs without whitespace, in order
RECURSIVE Words(_)
Words(s) ==
  IF s = <<>> THEN <<>>
  ELSE IF Head(s) \in Space THEN Words(Tail(s))
  ELSE LET n == Greatest({k \in 1..Len(s) : \A i \in 1..k : s[i] \notin Space})
       IN <<SubSeq(s, 1, n)>> \o Words(SubSeq(s, n + 1, Len(s)))

\* a word without any delimiter
PlainWord(w) == \A k \in 1..Len(w) : w[k] \notin HashDelims
\* a hashtag token: one delimiter, then one or more characters that are not
\* delimiters
HashtagToken(w) ==
  /\ Len(w) >= 2
  /\ w[1] \in HashDelims
  /\ \A k \in 2..Len(w) : w[k] \notin HashDelims
\* a delimiter-paired token, of the form #foo#bar#
PairedToken(w) ==
  /\ Len(w) >= 5
  /\ w[1] \in HashDelims /\ w[Len(w)] \in HashDelims
  /\ \E d \in 3..(Len(w) - 2) :
       \A k \in 2..(Len(w) - 1) : (w[k] \in HashDelims) <=> (k = d)

\* the tags the hashtag tokens among the words ws stand for, in order
RECURSIVE TokenTags(_)
TokenTags(ws) ==
  IF ws = <<>> THEN <<>>
  ELSE (IF HashtagToken(Head(ws)) THEN <<<<"t", Tail(Head(ws))>>>> ELSE <<>>)
         \o TokenTags(Tail(ws))

\* every word of the content is plain, a hashtag token or a paired token
ClearContent(s) ==
  \A i \in 1..Len(Words(s)) :
     \/ PlainWord(Words(s)[i])
     \/ HashtagToken(Words(s)[i])
     \/ PairedToken(Words(s)[i])

\* C12: after hashtag extraction over a content made of plain words, hashtag
\* tokens and delimiter-paired tokens, the tag sequence is the tags already
\* present followed by one ["t", token] tag per hashtag token, in the order
\* of the content, the delimiter stripped from its value; the paired tokens
\* yield no tag.
OneTagPerHashtagToken ==
  (htPc = "done" /\ ClearContent(htContent)) =>
     htTags.elems = htOld.elems \o TokenTags(Words(htContent))

====
